---- MODULE Spec2Model ----
(***************************************************************************)
(* Model of the knowledge-base engine of src/minesweeper.py: the Sentence  *)
(* class, MinesweeperAI.mark_mine / mark_safe and the fixpoint loop of     *)
(* MinesweeperAI.add_knowledge, driven by observations taken from a hidden *)
(* Minesweeper board.                                                      *)
(*                                                                         *)
(* A cell is a pair <<i, j>> with 0-based row and column, as in the code.  *)
(* A sentence is a record [cells |-> set of cells, count |-> integer].     *)
(* self.knowledge and the local list new_sentences are sequences of        *)
(* sentences.  A Sentence object is never shared between the two lists:    *)
(* new_sentences only holds objects built by generate_new_knowledge (or    *)
(* the observation sentence), and pop() moves an object out of it before   *)
(* it is appended to self.knowledge, so value sequences model the lists.   *)
(***************************************************************************)
EXTENDS Integers, Sequences, FiniteSets, TLC

\* Bounds of the model: grid sizes, mines on the board and add_knowledge calls
\* per run.
MaxHeight == 3
MaxWidth == 3
MaxMines == 2
MaxObs == 3

VARIABLES
    height,         \* MinesweeperAI.height (also Minesweeper.height)
    width,          \* MinesweeperAI.width  (also Minesweeper.width)
    board,          \* Minesweeper.mines: the hidden set of mine cells
    moves_made,     \* MinesweeperAI.moves_made
    mines,          \* MinesweeperAI.mines
    safes,          \* MinesweeperAI.safes
    knowledge,      \* MinesweeperAI.knowledge
    new_sentences,  \* local list new_sentences of add_knowledge
    pc,             \* position inside add_knowledge ("idle" outside a call)
    idx,            \* position of `for s in self.knowledge` (line 285), 1-based
    todo,           \* cells of tuple(mines) / tuple(safes) not yet visited
    num_mines,      \* local num_mines (line 282)
    num_safes,      \* local num_safes (line 283)
    trace,          \* cells passed to add_knowledge so far, in call order
    pre,            \* for a repeated observation: the state when the call began
    req,            \* cells the subset rule forces to be mines in this call
    pops,           \* number of new_sentences.pop() executed by this call
    call,           \* the last call of mark_mine, mark_safe or make_safe_move
    first           \* what the previous MinesweeperAI object ended with

vars == <<height, width, board, moves_made, mines, safes, knowledge,
          new_sentences, pc, idx, todo, num_mines, num_safes, trace, pre, req,
          pops, call, first>>

----------------------------------------------------------------------------
\* Grid and board (class Minesweeper)

\* All cells of an h x w grid.
Cells(h, w) == (0 .. h - 1) \X (0 .. w - 1)

\* The 3 x 3 window range(-1,2) x range(-1,2) around a cell, centre included.
Window(cell) == {<<cell[1] + di, cell[2] + dj>> : di \in -1 .. 1, dj \in -1 .. 1}

\* The bounds test of line 74 and of line 249.
InBounds(c, h, w) == c[1] >= 0 /\ c[1] <= h - 1 /\ c[2] >= 0 /\ c[2] <= w - 1

\* Minesweeper.nearby_mines: mines within one row and column, cell excluded.
nearby_mines(cell, h, w, b) ==
    Cardinality({c \in Window(cell) : c # cell /\ InBounds(c, h, w) /\ c \in b})

----------------------------------------------------------------------------
\* class Sentence

Sentence(cells, count) == [cells |-> cells, count |-> count]

\* An optional set: <<>> is None, <<S>> is the set S.
None == <<>>
Some(S) == <<S>>

\* Python truthiness of `if mines:` for a value that is None or a set.
Truthy(o) == o # None /\ o[1] # {}

\* Sentence.known_mines: all cells when the count equals their number.
known_mines(s) == IF Cardinality(s.cells) = s.count THEN Some(s.cells) ELSE None

\* Sentence.known_safes: all cells when the count is 0.
known_safes(s) == IF s.count = 0 THEN Some(s.cells) ELSE None

\* Sentence.mark_mine without `self.count -= 1`.
Sentence_mark_mine_keeps_count(s, cell) ==
    IF cell \in s.cells THEN Sentence(s.cells \ {cell}, s.count) ELSE s

\* Sentence.mark_mine without the test `cell in self.cells`.
Sentence_mark_mine_unguarded(s, cell) == Sentence(s.cells \ {cell}, s.count - 1)

\* Sentence.mark_mine that decrements the count by two.
Sentence_mark_mine_twice(s, cell) ==
    IF cell \in s.cells THEN Sentence(s.cells \ {cell}, s.count - 2) ELSE s

\* Sentence.mark_mine: drop the cell and decrement the count, if present.
Sentence_mark_mine(s, cell) ==
    IF cell \in s.cells THEN Sentence(s.cells \ {cell}, s.count - 1) ELSE s

\* Sentence.mark_safe that also decrements the count, as mark_mine does.
Sentence_mark_safe_decrements(s, cell) ==
    IF cell \in s.cells THEN Sentence(s.cells \ {cell}, s.count - 1) ELSE s

\* Sentence.mark_safe: drop the cell, if present.
Sentence_mark_safe(s, cell) ==
    IF cell \in s.cells THEN Sentence(s.cells \ {cell}, s.count) ELSE s

----------------------------------------------------------------------------
\* MinesweeperAI.mark_mine / mark_safe: their effect on self.knowledge.  The
\* pending list new_sentences is not touched by either.

mark_mine_knowledge(kn, cell) ==
    [k \in DOMAIN kn |-> Sentence_mark_mine(kn[k], cell)]

mark_safe_knowledge(kn, cell) ==
    [k \in DOMAIN kn |-> Sentence_mark_safe(kn[k], cell)]

----------------------------------------------------------------------------
\* Python list helpers, with Sentence.__eq__ (equality by cells and count).
\* In the loops below, `after` is the singleton holding the list as it is after
\* one iteration, and the rest of the loop runs on that value v: the result
\* is the one element of {Loop(.., v) : v \in after}.

\* `s in seq`
Contains(seq, s) == \E k \in DOMAIN seq : seq[k] = s

\* seq.count(s)
ListCount(seq, s) == Cardinality({k \in DOMAIN seq : seq[k] = s})

\* seq.remove(s): drops the first element equal to s.
RECURSIVE ListRemove(_, _)
ListRemove(seq, s) ==
    IF seq = <<>> THEN <<>>
    ELSE IF Head(seq) = s THEN Tail(seq)
    ELSE <<Head(seq)>> \o ListRemove(Tail(seq), s)

\* for s in tuple(seq): if s.cells == set(): seq.remove(s)
RECURSIVE RemoveEmptyFrom(_, _, _)
RemoveEmptyFrom(snap, k, cur) ==
    IF k > Len(snap) THEN cur
    ELSE LET after == {IF snap[k].cells = {} THEN ListRemove(cur, snap[k]) ELSE cur}
         IN  CHOOSE r \in {RemoveEmptyFrom(snap, k + 1, v) : v \in after} : TRUE

RemoveEmpty(seq) == RemoveEmptyFrom(seq, 1, seq)

\* for s in tuple(seq): if seq.count(s) > 1: seq.remove(s)
RECURSIVE RemoveDuplicatesFrom(_, _, _)
RemoveDuplicatesFrom(snap, k, cur) ==
    IF k > Len(snap) THEN cur
    ELSE LET after == {IF ListCount(cur, snap[k]) > 1 THEN ListRemove(cur, snap[k]) ELSE cur}
         IN  CHOOSE r \in {RemoveDuplicatesFrom(snap, k + 1, v) : v \in after} : TRUE

RemoveDuplicates(seq) == RemoveDuplicatesFrom(seq, 1, seq)

----------------------------------------------------------------------------
\* generate_new_knowledge (lines 208-226)

\* Lines 220-221 / 225-226: queue temp unless pending, known or empty.
AddIfNew(ns, kn, temp) ==
    IF ~Contains(ns, temp) /\ ~Contains(kn, temp) /\ temp.cells # {}
    THEN Append(ns, temp) ELSE ns

\* The body of the double loop with the two counts subtracted the wrong way.
GeneratePair_swapped(kn, ns, s1, s2) ==
    IF s1 # s2 /\ s1.count # 0 /\ s2.count # 0
    THEN LET a == IF s2.cells \subseteq s1.cells
                  THEN AddIfNew(ns, kn, Sentence(s1.cells \ s2.cells, s2.count - s1.count))
                  ELSE ns
         IN  IF s1.cells \subseteq s2.cells
             THEN AddIfNew(a, kn, Sentence(s2.cells \ s1.cells, s1.count - s2.count))
             ELSE a
    ELSE ns

\* The body of the double loop with the count of the larger sentence kept.
GeneratePair_keeps_count(kn, ns, s1, s2) ==
    IF s1 # s2 /\ s1.count # 0 /\ s2.count # 0
    THEN LET a == IF s2.cells \subseteq s1.cells
                  THEN AddIfNew(ns, kn, Sentence(s1.cells \ s2.cells, s1.count))
                  ELSE ns
         IN  IF s1.cells \subseteq s2.cells
             THEN AddIfNew(a, kn, Sentence(s2.cells \ s1.cells, s2.count))
             ELSE a
    ELSE ns

\* The body of the double loop for one pair (s1, s2).
GeneratePair(kn, ns, s1, s2) ==
    IF s1 # s2 /\ s1.count # 0 /\ s2.count # 0
    THEN LET a == IF s2.cells \subseteq s1.cells
                  THEN AddIfNew(ns, kn, Sentence(s1.cells \ s2.cells, s1.count - s2.count))
                  ELSE ns
         IN  IF s1.cells \subseteq s2.cells
             THEN AddIfNew(a, kn, Sentence(s2.cells \ s1.cells, s2.count - s1.count))
             ELSE a
    ELSE ns

\* The double loop, pair number k running over 0 .. n*n - 1 in loop order.
RECURSIVE GenerateFrom(_, _, _)
GenerateFrom(kn, k, ns) ==
    LET n == Len(kn) IN
    IF k >= n * n THEN ns
    ELSE LET after == {GeneratePair(kn, ns, kn[(k \div n) + 1], kn[(k % n) + 1])}
         IN  CHOOSE r \in {GenerateFrom(kn, k + 1, v) : v \in after} : TRUE

generate_new_knowledge(kn, ns) == GenerateFrom(kn, 0, ns)

----------------------------------------------------------------------------
\* The observation sentence (lines 236-257), built after mark_safe(cell)

\* temp_set without the test `new_cell not in self.safes`.
temp_set_keeps_safes(cell, h, w, sf, mn) ==
    {c \in Window(cell) : InBounds(c, h, w) /\ c \notin mn}

temp_set(cell, h, w, sf, mn) ==
    {c \in Window(cell) : InBounds(c, h, w) /\ c \notin sf /\ c \notin mn}

\* count_adjuster without line 254: known mines are not subtracted.
count_adjuster_none(cell, h, w, sf, mn) == 0

count_adjuster(cell, h, w, sf, mn) ==
    Cardinality({c \in Window(cell) : InBounds(c, h, w) /\ c \notin sf /\ c \in mn})

ObservationSentence(cell, count, h, w, sf, mn) ==
    Sentence(temp_set(cell, h, w, sf, mn), count - count_adjuster(cell, h, w, sf, mn))

----------------------------------------------------------------------------
\* Initial state: a fresh MinesweeperAI on a fresh board

Init ==
    /\ height \in 1 .. MaxHeight
    /\ width \in 1 .. MaxWidth
    /\ board \in {b \in SUBSET Cells(height, width) : Cardinality(b) <= MaxMines}
    /\ moves_made = {}
    /\ mines = {}
    /\ safes = {}
    /\ knowledge = <<>>
    /\ new_sentences = <<>>
    /\ pc = "idle"
    /\ idx = 0
    /\ todo = {}
    /\ num_mines = 0
    /\ num_safes = 0
    /\ trace = <<>>
    /\ pre = <<>>
    /\ req = {}
    /\ pops = 0
    /\ call = <<>>
    /\ first = <<>>

----------------------------------------------------------------------------
\* add_knowledge

\* The state a repeated observation is compared with.
Snapshot == <<moves_made, safes, mines, knowledge>>

\* Line 336 without the test: the outer loop never breaks.
AfterIteration_always_pop(ns) == "pop"

\* Line 336: leave the outer loop when nothing is pending.
AfterIteration(ns) == IF Len(ns) = 0 THEN "idle" ELSE "pop"

\* Lines 228-257 without self.mark_safe(cell) of line 232.
Begin_no_mark_safe(cell, count) ==
    /\ pc = "idle"
    /\ moves_made' = moves_made \cup {cell}
    /\ new_sentences' =
          <<ObservationSentence(cell, count, height, width, safes, mines)>>
    /\ pc' = "pop"
    /\ trace' = Append(trace, cell)
    /\ pre' = IF cell \in moves_made THEN <<Snapshot>> ELSE <<>>
    /\ req' = {}
    /\ pops' = 0
    /\ call' = <<>>
    /\ UNCHANGED <<height, width, board, mines, safes, knowledge, idx, todo,
                   num_mines, num_safes, first>>

\* Lines 228-257: a call add_knowledge(cell, count) up to the outer loop.
Begin(cell, count) ==
    /\ pc = "idle"
    /\ moves_made' = moves_made \cup {cell}
    /\ safes' = safes \cup {cell}
    /\ knowledge' = mark_safe_knowledge(knowledge, cell)
    /\ new_sentences' =
          <<ObservationSentence(cell, count, height, width, safes', mines)>>
    /\ pc' = "pop"
    /\ trace' = Append(trace, cell)
    /\ pre' = IF cell \in moves_made THEN <<Snapshot>> ELSE <<>>
    /\ req' = {}
    /\ pops' = 0
    /\ call' = <<>>
    /\ UNCHANGED <<height, width, board, mines, idx, todo, num_mines, num_safes,
                   first>>

\* The caller reveals a cell that is not a mine and reports the board's count.
Observe ==
    /\ Len(trace) < MaxObs
    /\ \E cell \in Cells(height, width) \ board :
          Begin(cell, nearby_mines(cell, height, width, board))

\* The same caller, allowed one more observation.
ObserveLong ==
    /\ Len(trace) < MaxObs + 1
    /\ \E cell \in Cells(height, width) \ board :
          Begin(cell, nearby_mines(cell, height, width, board))

\* Cells that are forced to be mines by a pair of sentences of kn: the
\* difference of a pair A, B with nonzero counts, B.cells a proper subset of
\* A.cells and A.count - B.count = |A.cells \ B.cells|.
ForcedMines(kn) ==
    UNION {kn[a].cells \ kn[b].cells : <<a, b>> \in
              {p \in (DOMAIN kn) \X (DOMAIN kn) :
                  /\ kn[p[1]] # kn[p[2]]
                  /\ kn[p[1]].count # 0 /\ kn[p[2]].count # 0
                  /\ kn[p[2]].cells \subseteq kn[p[1]].cells
                  /\ kn[p[2]].cells # kn[p[1]].cells
                  /\ kn[p[1]].count - kn[p[2]].count
                       = Cardinality(kn[p[1]].cells \ kn[p[2]].cells)}}

\* Lines 267-283: pop a pending sentence; append it and run the subset rule
\* unless an equal sentence is already known.  pop() on an empty list raises.
Pop ==
    /\ pc = "pop"
    /\ pops' = pops + 1
    /\ IF Len(new_sentences) = 0
       THEN /\ pc' = "raised"
            /\ UNCHANGED <<knowledge, new_sentences, idx, num_mines, num_safes, req>>
       ELSE LET test_sentence == new_sentences[Len(new_sentences)]
                rest == SubSeq(new_sentences, 1, Len(new_sentences) - 1)
            IN  IF ~Contains(knowledge, test_sentence)
                THEN /\ knowledge' = Append(knowledge, test_sentence)
                     /\ new_sentences' = generate_new_knowledge(knowledge', rest)
                     /\ req' = req \cup ForcedMines(knowledge')
                     /\ num_mines' = Cardinality(mines)
                     /\ num_safes' = Cardinality(safes)
                     /\ idx' = 1
                     /\ pc' = "for_s"
                ELSE /\ new_sentences' = rest
                     /\ pc' = AfterIteration(rest)
                     /\ UNCHANGED <<knowledge, idx, num_mines, num_safes, req>>
    /\ UNCHANGED <<height, width, board, moves_made, mines, safes, todo, trace, pre,
                   call, first>>

\* Lines 292-293 for the sentence at position k, then the next position.
SafesOrNext(kn, k) ==
    IF Truthy(known_safes(kn[k]))
    THEN [pc |-> "mark_safes", idx |-> k, todo |-> known_safes(kn[k])[1]]
    ELSE [pc |-> "for_s", idx |-> k + 1, todo |-> {}]

\* Lines 285-288 and 292-293: the next sentence of the marking pass.
ForS ==
    /\ pc = "for_s"
    /\ IF idx > Len(knowledge)
       THEN /\ pc' = "prune"
            /\ UNCHANGED <<idx, todo>>
       ELSE LET s == knowledge[idx]
                nxt == IF Truthy(known_mines(s))
                       THEN [pc |-> "mark_mines", idx |-> idx, todo |-> known_mines(s)[1]]
                       ELSE SafesOrNext(knowledge, idx)
            IN  /\ pc' = nxt.pc
                /\ idx' = nxt.idx
                /\ todo' = nxt.todo
    /\ UNCHANGED <<height, width, board, moves_made, mines, safes, knowledge,
                   new_sentences, num_mines, num_safes, trace, pre, req, pops,
                   call, first>>

\* Lines 289-290: one self.mark_mine(c) of the loop over tuple(mines); the
\* order of a tuple built from a set is not fixed.
MarkMine ==
    /\ pc = "mark_mines"
    /\ \E c \in todo :
          /\ mines' = mines \cup {c}
          /\ knowledge' = mark_mine_knowledge(knowledge, c)
          /\ LET nxt == IF todo \ {c} # {}
                        THEN [pc |-> "mark_mines", idx |-> idx, todo |-> todo \ {c}]
                        ELSE SafesOrNext(knowledge', idx)
             IN  /\ pc' = nxt.pc
                 /\ idx' = nxt.idx
                 /\ todo' = nxt.todo
    /\ UNCHANGED <<height, width, board, moves_made, safes, new_sentences,
                   num_mines, num_safes, trace, pre, req, pops, call, first>>

\* Lines 294-295: one self.mark_safe(c) of the loop over tuple(safes).
MarkSafe ==
    /\ pc = "mark_safes"
    /\ \E c \in todo :
          /\ safes' = safes \cup {c}
          /\ knowledge' = mark_safe_knowledge(knowledge, c)
          /\ todo' = todo \ {c}
          /\ IF todo' # {}
             THEN pc' = "mark_safes" /\ idx' = idx
             ELSE pc' = "for_s" /\ idx' = idx + 1
    /\ UNCHANGED <<height, width, board, moves_made, mines, new_sentences,
                   num_mines, num_safes, trace, pre, req, pops, call, first>>

\* Line 317: the test that decides whether the inner loop runs again.
KnowledgeChanged(nm, ns, mn, sf) == nm > Cardinality(mn) \/ ns > Cardinality(sf)

\* Lines 297-322 and 336: prune both lists, then either run the subset rule
\* and the marking pass again or leave the inner loop.
Prune ==
    /\ pc = "prune"
    /\ knowledge' = RemoveDuplicates(RemoveEmpty(knowledge))
    /\ LET pruned == RemoveDuplicates(RemoveEmpty(new_sentences))
       IN  IF KnowledgeChanged(num_mines, num_safes, mines, safes)
           THEN /\ new_sentences' = generate_new_knowledge(knowledge', pruned)
                /\ num_mines' = Cardinality(mines)
                /\ num_safes' = Cardinality(safes)
                /\ idx' = 1
                /\ pc' = "for_s"
           ELSE /\ new_sentences' = pruned
                /\ pc' = AfterIteration(pruned)
                /\ UNCHANGED <<idx, num_mines, num_safes>>
    /\ UNCHANGED <<height, width, board, moves_made, mines, safes, todo,
                   trace, pre, req, pops, call, first>>

Next == Observe \/ Pop \/ ForS \/ MarkMine \/ MarkSafe \/ Prune

Spec == Init /\ [][Next]_vars

\* add_knowledge is synchronous straight-line code: once called, it keeps
\* executing until it returns or raises.  Calls themselves are up to the caller.
FairSpec ==
    Spec /\ WF_vars(Pop \/ ForS \/ MarkMine \/ MarkSafe \/ Prune)

\* The same program with one more observation per run.
NextLong == ObserveLong \/ Pop \/ ForS \/ MarkMine \/ MarkSafe \/ Prune

SpecLong == Init /\ [][NextLong]_vars

----------------------------------------------------------------------------
\* MinesweeperAI.mark_mine / mark_safe called directly on a knowledge base

\* Bounds of the knowledge bases the two methods are applied to.
MaxKnowledge == 2
MaxMarkWidth == 2

\* The sentences over a set of cells with 0 <= count <= |cells|.
SentencesOver(cs) ==
    UNION {{Sentence(c, n) : n \in 0 .. Cardinality(c)} : c \in SUBSET cs}

\* The lists of at most n elements of S.
ListsUpTo(S, n) == UNION {[1 .. m -> S] : m \in 0 .. n}

\* A knowledge base on a one-row grid: any disjoint mines and safes and any
\* list of sentences, cells of mines or safes included.
InitMarks ==
    /\ height = 1
    /\ width \in 1 .. MaxMarkWidth
    /\ board = {}
    /\ moves_made = {}
    /\ mines \in SUBSET Cells(height, width)
    /\ safes \in SUBSET (Cells(height, width) \ mines)
    /\ knowledge \in ListsUpTo(SentencesOver(Cells(height, width)), MaxKnowledge)
    /\ new_sentences = <<>>
    /\ pc = "idle"
    /\ idx = 0
    /\ todo = {}
    /\ num_mines = 0
    /\ num_safes = 0
    /\ trace = <<>>
    /\ pre = <<>>
    /\ req = {}
    /\ pops = 0
    /\ call = <<>>
    /\ first = <<>>

\* The record of a call: its name, arguments and return value, and the state
\* it started in.
CallRecord(op, arg, ret) ==
    [op |-> op, arg |-> arg, ret |-> ret, before |-> Snapshot]

\* MinesweeperAI.mark_mine(cell), lines 162-173.
mark_mine(cell) ==
    /\ pc = "idle"
    /\ mines' = mines \cup {cell}
    /\ knowledge' = mark_mine_knowledge(knowledge, cell)
    /\ call' = Append(call, CallRecord("mark_mine", <<cell>>, None))
    /\ UNCHANGED <<height, width, board, moves_made, safes, new_sentences, pc,
                   idx, todo, num_mines, num_safes, trace, pre, req, pops, first>>

\* MinesweeperAI.mark_safe(cell), lines 176-187.
mark_safe(cell) ==
    /\ pc = "idle"
    /\ safes' = safes \cup {cell}
    /\ knowledge' = mark_safe_knowledge(knowledge, cell)
    /\ call' = Append(call, CallRecord("mark_safe", <<cell>>, None))
    /\ UNCHANGED <<height, width, board, moves_made, mines, new_sentences, pc,
                   idx, todo, num_mines, num_safes, trace, pre, req, pops, first>>

\* The caller's first call, or the same call made again.
FirstOrSame(op, cell) ==
    \/ call = <<>>
    \/ Len(call) = 1 /\ call[1].op = op /\ call[1].arg = <<cell>>

CallMarkMine ==
    \E cell \in Cells(height, width) :
        FirstOrSame("mark_mine", cell) /\ mark_mine(cell)

CallMarkSafe ==
    \E cell \in Cells(height, width) :
        FirstOrSame("mark_safe", cell) /\ mark_safe(cell)

NextMarks == CallMarkMine \/ CallMarkSafe

SpecMarks == InitMarks /\ [][NextMarks]_vars

----------------------------------------------------------------------------
\* MinesweeperAI.make_safe_move, called between add_knowledge calls

\* Line 358 without `.difference(self.moves_made)`.
available_moves_all_safes(sf, mm) == sf

\* Line 358: the safe cells that are not moves already made.
available_moves(sf, mm) == sf \ mm

\* Line 361: random.choice over the available moves, None when there is none.
Returns(avail) == IF avail # {} THEN {Some(c) : c \in avail} ELSE {None}

\* make_safe_move, lines 348-361.
make_safe_move ==
    /\ pc = "idle"
    /\ \E ret \in Returns(available_moves(safes, moves_made)) :
          call' = <<CallRecord("make_safe_move", <<>>, ret)>>
    /\ UNCHANGED <<height, width, board, moves_made, mines, safes, knowledge,
                   new_sentences, pc, idx, todo, num_mines, num_safes, trace,
                   pre, req, pops, first>>

NextMoves == Observe \/ Pop \/ ForS \/ MarkMine \/ MarkSafe \/ Prune \/ make_safe_move

SpecMoves == Init /\ [][NextMoves]_vars

----------------------------------------------------------------------------
\* add_knowledge called with any cell of the grid

\* The caller passes any cell, a mine of the board included, with the count
\* the board gives for it.
ObserveAny ==
    /\ Len(trace) < MaxObs
    /\ \E cell \in Cells(height, width) :
          Begin(cell, nearby_mines(cell, height, width, board))

\* With a mine among the observed cells the counts of the derived sentences
\* can grow without end and the outer loop never leaves; the model follows
\* a call for at most MaxPops sentences.
MaxPops == 6

PopAny == pops < MaxPops /\ Pop

NextAny == ObserveAny \/ PopAny \/ ForS \/ MarkMine \/ MarkSafe \/ Prune

SpecAny == Init /\ [][NextAny]_vars

----------------------------------------------------------------------------
\* The same observations given to a second MinesweeperAI in another order

\* The caller reveals a cell not revealed before: any non-mine cell for the
\* first object, a cell the first object was given for the second.
ObserveDistinct ==
    /\ Len(trace) < MaxObs
    /\ \E cell \in (IF first = <<>> THEN Cells(height, width) \ board
                                    ELSE first[1][1]) \ moves_made :
          Begin(cell, nearby_mines(cell, height, width, board))

\* MinesweeperAI.__init__, lines 146-160: a fresh object for the same board,
\* built once the first has returned from at least two calls; what the first
\* ended with is kept for comparison.
NewAI ==
    /\ pc = "idle"
    /\ first = <<>>
    /\ Len(trace) >= 2
    /\ first' = <<Snapshot>>
    /\ moves_made' = {}
    /\ mines' = {}
    /\ safes' = {}
    /\ knowledge' = <<>>
    /\ idx' = 0
    /\ todo' = {}
    /\ num_mines' = 0
    /\ num_safes' = 0
    /\ trace' = <<>>
    /\ pre' = <<>>
    /\ req' = {}
    /\ pops' = 0
    /\ UNCHANGED <<height, width, board, new_sentences, pc, call>>

NextOrders ==
    ObserveDistinct \/ NewAI \/ Pop \/ ForS \/ MarkMine \/ MarkSafe \/ Prune

SpecOrders == Init /\ [][NextOrders]_vars

----------------------------------------------------------------------------
\* Properties

\* Sentences of a list, as a set of positions.
Live(seq) == {seq[k] : k \in DOMAIN seq}

\* C1: after any sequence of board-consistent add_knowledge calls, every cell
\* of self.mines is a mine of the hidden board and no cell of self.safes is.
C1_Soundness ==
    pc = "idle" => (mines \subseteq board /\ safes \cap board = {})

\* A call has returned having deduced a mine and a safe cell nobody revealed.
C1_Witness ==
    pc = "idle" /\ mines # {} /\ safes \ moves_made # {}

\* C2: in every reachable state, the middle of a call included, self.safes
\* and self.mines are disjoint.
C2_Disjoint == safes \cap mines = {}

\* In the middle of the loop over tuple(safes), after a mark_safe of this
\* pass, with a mine already confirmed.
C2_Witness ==
    /\ pc = "mark_safes"
    /\ Cardinality(safes) > num_safes
    /\ mines # {}

\* C3: every board-consistent add_knowledge call returns: pop() is never
\* executed on an empty list and a call in progress eventually ends with
\* nothing pending.
C3_Terminates ==
    /\ [](pc # "raised")
    /\ (pc # "idle") ~> (pc = "idle" /\ new_sentences = <<>>)

\* A call has returned after a chain of at least three popped sentences.
C3_Witness == pc = "idle" /\ pops >= 3 /\ new_sentences = <<>>

\* C4: when add_knowledge returns, every sentence s of self.knowledge has
\* 0 < s.count < |s.cells|.
C4_Saturated ==
    pc = "idle" =>
        \A s \in Live(knowledge) : 0 < s.count /\ s.count < Cardinality(s.cells)

\* C5: the cells that a pair of known sentences forced to be mines at the
\* moment a sentence was appended are all in self.mines when the call returns.
C5_SubsetRuleYieldsMines ==
    pc = "idle" => req \subseteq mines

\* The cells of the end-to-end scenario.
ScenarioBoard == {<<0, 0>>, <<2, 2>>}
ScenarioTrace == << <<1, 1>>, <<0, 1>> >>
ScenarioDone ==
    /\ height = 3 /\ width = 3
    /\ board = ScenarioBoard
    /\ trace = ScenarioTrace
    /\ pc = "idle"

\* C6, as stated: after add_knowledge((1,1), 2) and add_knowledge((0,1), 1) on
\* the 3x3 board with mines at (0,0) and (2,2), (0,0) is in self.mines and a
\* live sentence constrains {(0,2),(1,0),(1,2),(2,0),(2,1),(2,2)} to 1 mine.
C6_Scenario_Original ==
    ScenarioDone =>
        /\ <<0, 0>> \in mines
        /\ Sentence({<<0, 2>>, <<1, 0>>, <<1, 2>>, <<2, 0>>, <<2, 1>>, <<2, 2>>}, 1)
              \in Live(knowledge)

\* C6, amended: after the two calls no cell is a confirmed mine; the live
\* sentences are {(0,0),(0,2),(1,0),(1,2),(2,0),(2,1),(2,2)} = 2, the
\* observation {(0,0),(0,2),(1,0),(1,2)} = 1 and their difference
\* {(2,0),(2,1),(2,2)} = 1.
C6_Scenario ==
    ScenarioDone =>
        /\ mines = {}
        /\ safes = {<<1, 1>>, <<0, 1>>}
        /\ knowledge =
              << Sentence({<<0, 0>>, <<0, 2>>, <<1, 0>>, <<1, 2>>,
                           <<2, 0>>, <<2, 1>>, <<2, 2>>}, 2),
                 Sentence({<<0, 0>>, <<0, 2>>, <<1, 0>>, <<1, 2>>}, 1),
                 Sentence({<<2, 0>>, <<2, 1>>, <<2, 2>>}, 1) >>

\* The scenario has run to its end.
C6_Witness == ScenarioDone /\ Len(knowledge) = 3

\* C7: whenever add_knowledge returns, self.knowledge holds no sentence with
\* an empty cell set and no two equal sentences.
C7_NoEmptyNoDuplicate ==
    pc = "idle" =>
        \A k \in DOMAIN knowledge :
            /\ knowledge[k].cells # {}
            /\ ListCount(knowledge, knowledge[k]) = 1

\* C8: whenever add_knowledge returns, no sentence of self.knowledge holds a
\* cell of self.safes or self.mines.
C8_NoResolvedCell ==
    pc = "idle" =>
        \A s \in Live(knowledge) : s.cells \cap (safes \cup mines) = {}

\* C9: in every reachable state every sentence of self.knowledge and of
\* new_sentences has 0 <= count <= |cells|.
C9_CountInRange ==
    \A s \in Live(knowledge) \cup Live(new_sentences) :
        0 <= s.count /\ s.count <= Cardinality(s.cells)

\* In the middle of the loop over tuple(mines), after a mark_mine of this
\* pass, with a sentence made by subset subtraction pending.
C9_Witness ==
    /\ pc = "mark_mines"
    /\ Cardinality(mines) > num_mines
    /\ new_sentences # <<>>

\* C10: add_knowledge for a cell already in moves_made, with the same board
\* count, leaves moves_made, safes, mines and the multiset of sentences of
\* self.knowledge as they were.
C10_RedundantNoOp ==
    (pc = "idle" /\ pre # <<>>) =>
        /\ moves_made = pre[1][1]
        /\ safes = pre[1][2]
        /\ mines = pre[1][3]
        /\ \A s \in Live(knowledge) \cup Live(pre[1][4]) :
              ListCount(knowledge, s) = ListCount(pre[1][4], s)

\* The list self.knowledge after call number n of the record.
KnowledgeAfter(n) == IF n = Len(call) THEN knowledge ELSE call[n + 1].before[4]

\* C11: calling MinesweeperAI.mark_mine(c) twice, or mark_safe(c) twice,
\* leaves the same mines, safes and sentences as calling it once.
C11_MarkIdempotent ==
    (Len(call) = 2 /\ call[1].op = call[2].op /\ call[1].arg = call[2].arg
        /\ call[1].op \in {"mark_mine", "mark_safe"}) =>
        Snapshot = call[2].before

\* mark_mine(c) was called twice and the first call decremented a count.
C11_Witness ==
    /\ Len(call) = 2
    /\ call[1].op = "mark_mine" /\ call[2].op = "mark_mine"
    /\ call[1].arg = call[2].arg
    /\ \E k \in DOMAIN knowledge :
          call[1].before[4][k].count = knowledge[k].count + 1

\* C12: Sentence.mark_mine(c) on a sentence that holds c removes c, keeps
\* every other cell and lowers the count by exactly one; on a sentence that
\* does not hold c it changes nothing.
C12_SentenceMarkMine ==
    \A n \in DOMAIN call :
        call[n].op = "mark_mine" =>
            LET c == call[n].arg[1]
                old == call[n].before[4]
                new == KnowledgeAfter(n)
            IN  /\ Len(new) = Len(old)
                /\ \A k \in DOMAIN old :
                      IF c \in old[k].cells
                      THEN /\ c \notin new[k].cells
                           /\ new[k].cells \cup {c} = old[k].cells
                           /\ new[k].count = old[k].count - 1
                      ELSE new[k] = old[k]

\* mark_mine(c) ran over a sentence that holds c and another cell, and over
\* a nonempty sentence that does not hold c.
C12_Witness ==
    /\ Len(call) = 1
    /\ call[1].op = "mark_mine"
    /\ \E k \in DOMAIN knowledge :
          /\ call[1].arg[1] \in call[1].before[4][k].cells
          /\ knowledge[k].cells # {}
    /\ \E k \in DOMAIN knowledge :
          /\ call[1].arg[1] \notin call[1].before[4][k].cells
          /\ knowledge[k].cells # {}

\* C13: make_safe_move returns a cell of self.safes that is not in
\* self.moves_made, returns None exactly when there is no such cell, changes
\* none of moves_made, safes, mines and knowledge, and never returns a mine of
\* the hidden board.
C13_SafeMove ==
    (call # <<>> /\ call[1].op = "make_safe_move") =>
        /\ Snapshot = call[1].before
        /\ (call[1].ret = None) <=> (safes \ moves_made = {})
        /\ call[1].ret # None =>
              /\ call[1].ret[1] \in safes
              /\ call[1].ret[1] \notin moves_made
              /\ call[1].ret[1] \notin board

\* make_safe_move returned a cell on a board with a mine, after the engine
\* had also confirmed a mine.
C13_Witness ==
    /\ call # <<>>
    /\ call[1].op = "make_safe_move"
    /\ call[1].ret # None
    /\ board # {}
    /\ mines # {}

\* C14: whatever cells add_knowledge is called with, self.moves_made is a
\* subset of self.safes in every state, and no step removes a cell from
\* self.moves_made.
C14_MovesMadeSafe ==
    /\ [](moves_made \subseteq safes)
    /\ [][moves_made \subseteq moves_made']_vars

\* Two calls have returned, one of them made with a mine of the board.
C14_Witness ==
    /\ pc = "idle"
    /\ Len(trace) >= 2
    /\ moves_made \cap board # {}

\* Distance between two cells: the larger of the row and column distances.
Abs(x) == IF x < 0 THEN -x ELSE x
Chebyshev(a, b) ==
    IF Abs(a[1] - b[1]) > Abs(a[2] - b[2])
    THEN Abs(a[1] - b[1]) ELSE Abs(a[2] - b[2])

\* The cell and the count of the add_knowledge call in progress.
ObservedCell == trace[Len(trace)]
ObservedCount == nearby_mines(ObservedCell, height, width, board)

\* The cells of the grid within distance 1 of the observed cell, itself excluded.
Neighbours == {c \in Cells(height, width) \ {ObservedCell} :
                  Chebyshev(c, ObservedCell) <= 1}

\* C15: the one sentence add_knowledge(cell, count) puts in new_sentences
\* has as cells the cells of the grid within distance 1 of cell that are in
\* neither self.safes nor self.mines (so not cell itself), and as count the
\* observed count minus the number of neighbours in self.mines.
C15_ObservationSentence ==
    (pc = "pop" /\ pops = 0) =>
        /\ new_sentences =
              << Sentence({c \in Neighbours \cup {ObservedCell} :
                              c \notin safes /\ c \notin mines},
                          ObservedCount - Cardinality(Neighbours \cap mines)) >>
        /\ ObservedCell \notin new_sentences[1].cells
        /\ new_sentences[1].cells \subseteq Cells(height, width)

\* A call has just built its sentence for a cell with a confirmed mine, a
\* confirmed safe cell and an undetermined cell among its neighbours.
C15_Witness ==
    /\ pc = "pop" /\ pops = 0
    /\ Neighbours \cap mines # {}
    /\ Neighbours \cap safes # {}
    /\ new_sentences[1].cells # {}

\* C16: whenever a marking pass over self.knowledge has added a cell to
\* self.mines or self.safes, the inner loop runs the subset rule and the
\* marking pass again before the next pending sentence is popped.
C16_InnerLoopRepeats ==
    [][(pc = "prune"
          /\ (Cardinality(mines) > num_mines \/ Cardinality(safes) > num_safes))
        => (pc' = "for_s" /\ idx' = 1)]_vars

\* C17: when add_knowledge returns, for every two distinct sentences A, B of
\* self.knowledge with nonzero counts, B.cells a subset of A.cells and
\* A.cells \ B.cells nonempty, the sentence (A.cells \ B.cells,
\* A.count - B.count) is in self.knowledge as well.
C17_SubsetClosure ==
    pc = "idle" =>
        \A A, B \in Live(knowledge) :
            (/\ A # B
             /\ A.count # 0 /\ B.count # 0
             /\ B.cells \subseteq A.cells
             /\ A.cells \ B.cells # {})
            => Sentence(A.cells \ B.cells, A.count - B.count) \in Live(knowledge)

\* C18: in every reachable state, every sentence of self.knowledge and every
\* sentence pending in new_sentences has a count equal to the number of its
\* cells that are mines of the hidden board.
C18_SentenceTruth ==
    \A s \in Live(knowledge) \cup Live(new_sentences) :
        s.count = Cardinality(s.cells \cap board)

\* After a marking pass that confirmed a mine, a sentence made by subset
\* subtraction is pending and still holds a cell confirmed in the meantime.
C18_Witness ==
    /\ pc = "prune"
    /\ Cardinality(mines) > num_mines
    /\ \E s \in Live(new_sentences) : s.cells \cap (mines \cup safes) # {}

\* C19: for a fixed board and a fixed set of distinct non-mine cells, a fresh
\* MinesweeperAI given the observations of these cells ends with the same
\* self.safes and self.mines whatever the order of the calls.
C19_OrderIndependent ==
    (pc = "idle" /\ first # <<>> /\ moves_made = first[1][1]) =>
        (safes = first[1][2] /\ mines = first[1][3])

====
